---- MODULE Spec2Model ----
(***************************************************************************)
(* Model of the IP geolocation lookup of device-collector (src/server.js,  *)
(* the variant with the in-memory cache): lookupIP with its 24 hour cache, *)
(* the three lookup services tried in order, the per-service transforms,   *)
(* the /clear-cache handler and the part of the /collect handler that      *)
(* follows its lookupIP call.                                              *)
(*                                                                         *)
(* JavaScript values are modelled as strings: a JS string is itself, a JS  *)
(* number is "#" followed by its digits, undefined and null are the two    *)
(* sentinels below.  A JS object is a function from key strings to values. *)
(* A parsed JSON document is wrapped with its kind, because the services   *)
(* may answer the JSON document null, which is not an object.              *)
(***************************************************************************)
EXTENDS Integers, Sequences, FiniteSets, TLC

\* ------------------------------------------------------------ bounds ----
NumCalls == 2           \* lookupIP invocations that may be in flight together
MaxTicks == 2           \* the clock advances at most this many half-TTL steps
MaxClearsInRow == 2     \* consecutive /clear-cache requests that are counted

Calls == 1..NumCalls

\* ----------------------------------------------------- JS value model ----
Undefined == "<undefined>"
Null == "<null>"
NaN == "#NaN"

\* JS truthiness of a primitive value (used by `a ? b : c` and `a || b`)
Truthy(v) == v \notin {Undefined, Null, "", "#0", NaN}

\* data.key on an object: undefined when the key is missing
Get(data, key) == IF key \in DOMAIN data THEN data[key] ELSE Undefined

\* a || b
Or(a, b) == IF Truthy(a) THEN a ELSE b

\* a parsed JSON document
Obj(f) == [kind |-> "object", fields |-> f]
JsonNull == [kind |-> "null", fields |-> <<>>]

\* the literal {} returned when every service failed
EmptyObject == Obj(<<>>)

\* Object.keys(v) of a JSON document that is an object
ObjectKeys(v) == DOMAIN v.fields

\* s.startsWith(p)
StartsWith(s, p) == Len(s) >= Len(p) /\ SubSeq(s, 1, Len(p)) = p

\* s.split(sep) for a one-character separator: the pieces, in order
RECURSIVE SplitFrom(_, _, _, _)
SplitFrom(s, sep, start, i) ==
  IF i > Len(s) THEN << SubSeq(s, start, Len(s)) >>
  ELSE IF SubSeq(s, i, i) = sep
       THEN << SubSeq(s, start, i - 1) >> \o SplitFrom(s, sep, i + 1, i + 1)
       ELSE SplitFrom(s, sep, start, i + 1)

Split(s, sep) == SplitFrom(s, sep, 1, 1)

\* arr[i] with JS zero-based index: undefined past the end
At(arr, i) == IF i + 1 <= Len(arr) THEN arr[i + 1] ELSE Undefined

Digits == {"0", "1", "2", "3", "4", "5", "6", "7", "8", "9"}

\* length of the run of decimal digits of s that starts at position i
RECURSIVE DigitRun(_, _)
DigitRun(s, i) ==
  IF i <= Len(s) /\ SubSeq(s, i, i) \in Digits THEN 1 + DigitRun(s, i + 1) ELSE 0

\* number of leading blanks of s from position i
RECURSIVE BlankRun(_, _)
BlankRun(s, i) ==
  IF i <= Len(s) /\ SubSeq(s, i, i) = " " THEN 1 + BlankRun(s, i + 1) ELSE 0

\* the element of a one-element set
The(S) == CHOOSE x \in S : TRUE

\* parseFloat(s): the longest prefix [blanks][sign]digits[.digits] read as a
\* number, NaN when there is none (exponents are not used by the services).
\* v: the argument, b: leading blanks, sg: length of the sign, int and frac:
\* digits before and after the point; each is bound as the element of a set
\* so that it is computed once.
ParseFloat(s) ==
  The({ IF v \in {Undefined, Null} THEN NaN
        ELSE
    The({ The({ The({ The({
      LET p == b + sg + 1
          neg == IF sg = 1 /\ SubSeq(v, b + 1, b + 1) = "-" THEN "-" ELSE ""
      IN IF int = 0 /\ frac = 0 THEN NaN
         ELSE IF frac = 0 THEN "#" \o neg \o SubSeq(v, p, p + int - 1)
         ELSE "#" \o neg \o SubSeq(v, p, p + int - 1) \o "." \o
              SubSeq(v, p + int + 1, p + int + frac)
      : frac \in {IF b + sg + 1 + int <= Len(v)
                     /\ SubSeq(v, b + sg + 1 + int, b + sg + 1 + int) = "."
                  THEN DigitRun(v, b + sg + int + 2) ELSE 0} })
      : int \in {DigitRun(v, b + sg + 1)} })
      : sg \in {IF b + 1 <= Len(v) /\ SubSeq(v, b + 1, b + 1) \in {"-", "+"}
                THEN 1 ELSE 0} })
      : b \in {BlankRun(v, 1)} })
    : v \in {s} })

\* ------------------------------------------------------ the services ----
CACHE_DURATION == 24 * 60 * 60 * 1000

Services == 1..3

ServiceName(i) == CASE i = 1 -> "ipapi.co" [] i = 2 -> "ip-api.com" [] i = 3 -> "ipinfo.io"

\* services[i].getUrl(ip); ip is null in auto-detection mode
GetUrl(i, ip) ==
  CASE i = 1 -> IF Truthy(ip) THEN "https://ipapi.co/" \o ip \o "/json/"
                ELSE "https://ipapi.co/json/"
    [] i = 2 -> IF Truthy(ip) THEN "http://ip-api.com/json/" \o ip
                ELSE "http://ip-api.com/json/"
    [] i = 3 -> IF Truthy(ip) THEN "https://ipinfo.io/" \o ip \o "/json"
                ELSE "https://ipinfo.io/json"

\* services[0] has no transform; services[1] and services[2] have one
HasTransform(i) == i \in {2, 3}

\* a transform that takes region and region_code from the wrong fields
TransformIpApiComSwapped(data) ==
  [ip           |-> Get(data, "query"),
   city         |-> Get(data, "city"),
   region       |-> Get(data, "region"),
   region_code  |-> Get(data, "regionName"),
   country      |-> Get(data, "country"),
   country_name |-> Get(data, "country"),
   country_code |-> Get(data, "countryCode"),
   latitude     |-> Get(data, "lat"),
   longitude    |-> Get(data, "lon"),
   timezone     |-> Get(data, "timezone"),
   org          |-> Or(Get(data, "org"), Get(data, "isp")),
   postal       |-> Get(data, "zip")]

\* services[1].transform (ip-api.com)
TransformIpApiCom(data) ==
  [ip           |-> Get(data, "query"),
   city         |-> Get(data, "city"),
   region       |-> Get(data, "regionName"),
   region_code  |-> Get(data, "region"),
   country      |-> Get(data, "country"),
   country_name |-> Get(data, "country"),
   country_code |-> Get(data, "countryCode"),
   latitude     |-> Get(data, "lat"),
   longitude    |-> Get(data, "lon"),
   timezone     |-> Get(data, "timezone"),
   org          |-> Or(Get(data, "org"), Get(data, "isp")),
   postal       |-> Get(data, "zip")]

\* services[2].transform (ipinfo.io)
TransformIpInfo(data) ==
  [ip           |-> Get(data, "ip"),
   city         |-> Get(data, "city"),
   region       |-> Get(data, "region"),
   country      |-> Get(data, "country"),
   country_name |-> Get(data, "country"),
   latitude     |-> IF Truthy(Get(data, "loc"))
                    THEN ParseFloat(At(Split(Get(data, "loc"), ","), 0)) ELSE Null,
   longitude    |-> IF Truthy(Get(data, "loc"))
                    THEN ParseFloat(At(Split(Get(data, "loc"), ","), 1)) ELSE Null,
   org          |-> Get(data, "org"),
   postal       |-> Get(data, "postal"),
   timezone     |-> Get(data, "timezone")]

\* reading a property of null throws a TypeError inside the transform
TransformThrows(i, json) == HasTransform(i) /\ json.kind = "null"

\* service.transform ? service.transform(json) : json
LocationData(i, json) ==
  CASE i = 1 -> json
    [] i = 2 -> Obj(TransformIpApiCom(json.fields))
    [] i = 3 -> Obj(TransformIpInfo(json.fields))

\* a classification that forgets the 172. prefix
UseAutoWithout172(ip) ==
  \/ ~Truthy(ip)
  \/ ip = "::1"
  \/ ip = "127.0.0.1"
  \/ StartsWith(ip, "192.168.")
  \/ StartsWith(ip, "10.")

\* useAuto of lookupIP
UseAuto(ip) ==
  \/ ~Truthy(ip)
  \/ ip = "::1"
  \/ ip = "127.0.0.1"
  \/ StartsWith(ip, "192.168.")
  \/ StartsWith(ip, "10.")
  \/ StartsWith(ip, "172.")

\* a key that is "auto" for every input that is looked up without address
CacheKeyAutoForPrivate(ip) == IF UseAuto(ip) THEN "auto" ELSE ip

\* cacheKey of lookupIP
CacheKey(ip) == Or(ip, "auto")

\* the argument lookupIP hands to getUrl
UrlArg(ip) == IF UseAuto(ip) THEN Null ELSE ip

\* --------------------------------------------------- inputs (bounded) ----
\* the strings handed to lookupIP
AllIPs ==
  {"", "127.0.0.1", "::1", "10.1.2.3", "172.16.0.1", "192.168.1.1",
   "8.8.8.8", "172.32.0.1", "172.15.0.1", "203.0.113.5"}

IPs == {"", "203.0.113.5"}

\* the empty string and two addresses of different private ranges
KeyIPs == {"", "10.1.2.3", "192.168.1.1"}

\* how the promise returned by fetch settles: a 2xx response, HTTP 429,
\* another non-2xx status, or a rejection (transport error, timeout)
FetchOutcomes == {"ok", "429", "500", "error"}

\* res.json() rejects when the body is not JSON
NotJson == [kind |-> "invalid", fields |-> <<>>]

IpApiCoBody ==
  [ip |-> "8.8.8.8", city |-> "A", region |-> "B", region_code |-> "BB",
   country |-> "CC", country_name |-> "C", country_code |-> "CC",
   latitude |-> "#3.5", longitude |-> "#-4.5", timezone |-> "T",
   org |-> "ORG", postal |-> "11111"]

IpApiComBody ==
  [query |-> "1.2.3.4", city |-> "X", regionName |-> "Y", region |-> "YY",
   country |-> "Z", countryCode |-> "ZZ", lat |-> "#1.5", lon |-> "#-2.5",
   isp |-> "ACME", zip |-> "00000"]

IpApiComFailBody ==
  [status |-> "fail", message |-> "reserved range", query |-> "10.1.2.3"]

IpInfoBody ==
  [ip |-> "1.2.3.4", city |-> "X", region |-> "Y", country |-> "ZZ",
   loc |-> "1.5,-2.5", org |-> "ACME", postal |-> "00000", timezone |-> "T"]

IpInfoNoLocBody ==
  [ip |-> "1.2.3.4", city |-> "X", region |-> "Y", country |-> "ZZ",
   org |-> "ACME", postal |-> "00000", timezone |-> "T"]

\* the JSON documents service i may answer with
AllBodies(i) ==
  CASE i = 1 -> {JsonNull, Obj(IpApiCoBody)}
    [] i = 2 -> {JsonNull, Obj(IpApiComBody), Obj(IpApiComFailBody)}
    [] i = 3 -> {JsonNull, Obj(IpInfoBody), Obj(IpInfoNoLocBody)}
    [] OTHER -> {}

\* the documents used when several calls run together
Bodies(i) ==
  CASE i = 1 -> {JsonNull, Obj(IpApiCoBody)}
    [] i = 2 -> {JsonNull, Obj(IpApiComBody)}
    [] i = 3 -> {JsonNull, Obj(IpInfoBody)}
    [] OTHER -> {}

\* -------------------------------------------------------------- state ----
VARIABLES
  ipCache,          \* the Map: cacheKey -> [data, timestamp]
  now,              \* Date.now()
  pc,               \* per call: where lookupIP is suspended or how it returned
  ip,               \* per call: the argument of lookupIP
  cached,           \* per call: what the cache check found
  service,          \* per call: index of the service of the current iteration
  requests,         \* per call: the URLs fetched so far, in order
  json,             \* per call: the last document res.json() produced
  result,           \* per call: the value lookupIP returned
  clearsInRow,      \* /clear-cache requests handled since any other request
  clearedInFlight,  \* the last clear ran while a call was awaiting a service
  collect,          \* per call: where the /collect handler that made it is
  deviceData,       \* per call: the document the handler hands to save()
  devices           \* the Device collection: the documents saved, in order

vars == <<ipCache, now, pc, ip, cached, service, requests, json, result,
          clearsInRow, clearedInFlight, collect, deviceData, devices>>

\* the state of the /collect handlers after their lookupIP call
collectVars == <<collect, deviceData, devices>>

NoResult == [kind |-> "none", fields |-> <<>>]

\* no document built yet
NoDoc == [body |-> <<>>, ip |-> Undefined, location |-> NoResult]

InFlight(c) == pc[c] \in {"fetch", "json"}
Returned(c) == pc[c] \in {"CACHE_HIT", "RETURN", "RETURN_EMPTY"}

Init ==
  /\ ipCache = <<>>
  /\ now = 0
  /\ pc = [c \in Calls |-> "idle"]
  /\ ip = [c \in Calls |-> ""]
  /\ cached = [c \in Calls |-> "unread"]
  /\ service = [c \in Calls |-> 0]
  /\ requests = [c \in Calls |-> <<>>]
  /\ json = [c \in Calls |-> NoResult]
  /\ result = [c \in Calls |-> NoResult]
  /\ clearsInRow = 0
  /\ clearedInFlight = FALSE
  /\ collect = [c \in Calls |-> "none"]
  /\ deviceData = [c \in Calls |-> NoDoc]
  /\ devices = <<>>

\* ------------------------------------------------------------ lookupIP ----
\* freshness tests with the comparison reversed, and with <= for <
FreshReversed(entry, t) == (t - entry.timestamp) > CACHE_DURATION

FreshInclusive(entry, t) == (t - entry.timestamp) <= CACHE_DURATION

\* (Date.now() - cached.timestamp) < CACHE_DURATION
Fresh(entry, t) == (t - entry.timestamp) < CACHE_DURATION

\* a cache check that never looks at the age of the entry
CacheHitIgnoringAge(cache, key, t) == key \in DOMAIN cache

\* cached && fresh
CacheHit(cache, key, t) == key \in DOMAIN cache /\ Fresh(cache[key], t)

\* ipCache.set(key, entry)
MapSet(cache, key, entry) ==
  [k \in DOMAIN cache \cup {key} |-> IF k = key THEN entry ELSE cache[k]]

\* a start that fetches from all three services at once
LookupFanOut(c, rawIp) ==
  /\ pc[c] = "idle"
  /\ \A d \in Calls : d < c => pc[d] # "idle"
  /\ ip' = [ip EXCEPT ![c] = rawIp]
  /\ cached' = [cached EXCEPT ![c] =
                  IF CacheKey(rawIp) \notin DOMAIN ipCache THEN "undefined"
                  ELSE IF CacheHit(ipCache, CacheKey(rawIp), now) THEN "fresh"
                  ELSE "expired"]
  /\ IF CacheHit(ipCache, CacheKey(rawIp), now)
     THEN /\ pc' = [pc EXCEPT ![c] = "CACHE_HIT"]
          /\ result' = [result EXCEPT ![c] = ipCache[CacheKey(rawIp)].data]
          /\ UNCHANGED <<service, requests>>
     ELSE /\ pc' = [pc EXCEPT ![c] = "fetch"]
          /\ service' = [service EXCEPT ![c] = 3]
          /\ requests' = [requests EXCEPT ![c] =
                            << GetUrl(1, UrlArg(rawIp)), GetUrl(2, UrlArg(rawIp)),
                               GetUrl(3, UrlArg(rawIp)) >>]
          /\ UNCHANGED result
  /\ clearsInRow' = 0
  /\ UNCHANGED collectVars
  /\ UNCHANGED <<ipCache, now, json, clearedInFlight>>

\* a start that renews the time of the entry it returns
LookupRefreshesOnHit(c, rawIp) ==
  /\ pc[c] = "idle"
  /\ \A d \in Calls : d < c => pc[d] # "idle"
  /\ ip' = [ip EXCEPT ![c] = rawIp]
  /\ cached' = [cached EXCEPT ![c] =
                  IF CacheKey(rawIp) \notin DOMAIN ipCache THEN "undefined"
                  ELSE IF CacheHit(ipCache, CacheKey(rawIp), now) THEN "fresh"
                  ELSE "expired"]
  /\ IF CacheHit(ipCache, CacheKey(rawIp), now)
     THEN /\ pc' = [pc EXCEPT ![c] = "CACHE_HIT"]
          /\ result' = [result EXCEPT ![c] = ipCache[CacheKey(rawIp)].data]
          /\ ipCache' = MapSet(ipCache, CacheKey(rawIp),
                               [data |-> ipCache[CacheKey(rawIp)].data,
                                timestamp |-> now])
          /\ UNCHANGED <<service, requests>>
     ELSE /\ pc' = [pc EXCEPT ![c] = "fetch"]
          /\ service' = [service EXCEPT ![c] = 1]
          /\ requests' = [requests EXCEPT ![c] = << GetUrl(1, UrlArg(rawIp)) >>]
          /\ UNCHANGED <<result, ipCache>>
  /\ clearsInRow' = 0
  /\ UNCHANGED collectVars
  /\ UNCHANGED <<now, json, clearedInFlight>>

\* the call starts: cache check, then the first fetch is issued
Lookup(c, rawIp) ==
  /\ pc[c] = "idle"
  /\ \A d \in Calls : d < c => pc[d] # "idle"
  /\ ip' = [ip EXCEPT ![c] = rawIp]
  /\ cached' = [cached EXCEPT ![c] =
                  IF CacheKey(rawIp) \notin DOMAIN ipCache THEN "undefined"
                  ELSE IF CacheHit(ipCache, CacheKey(rawIp), now) THEN "fresh"
                  ELSE "expired"]
  /\ IF CacheHit(ipCache, CacheKey(rawIp), now)
     THEN /\ pc' = [pc EXCEPT ![c] = "CACHE_HIT"]
          /\ result' = [result EXCEPT ![c] = ipCache[CacheKey(rawIp)].data]
          /\ UNCHANGED <<service, requests>>
     ELSE /\ pc' = [pc EXCEPT ![c] = "fetch"]
          /\ service' = [service EXCEPT ![c] = 1]
          /\ requests' = [requests EXCEPT ![c] = << GetUrl(1, UrlArg(rawIp)) >>]
          /\ UNCHANGED result
  /\ clearsInRow' = 0
  /\ UNCHANGED collectVars
  /\ UNCHANGED <<ipCache, now, json, clearedInFlight>>

\* a loop that caches the empty result when every service failed
NextServiceNegativeCache(c) ==
  /\ IF service[c] < 3
     THEN /\ service' = [service EXCEPT ![c] = @ + 1]
          /\ requests' = [requests EXCEPT ![c] =
                            Append(@, GetUrl(service[c] + 1, UrlArg(ip[c])))]
          /\ pc' = [pc EXCEPT ![c] = "fetch"]
          /\ ipCache' = ipCache
          /\ UNCHANGED result
     ELSE /\ pc' = [pc EXCEPT ![c] = "RETURN_EMPTY"]
          /\ result' = [result EXCEPT ![c] = EmptyObject]
          /\ ipCache' = MapSet(ipCache, CacheKey(ip[c]),
                               [data |-> EmptyObject, timestamp |-> now])
          /\ UNCHANGED <<service, requests>>

\* `continue`: the next iteration of the for loop, or the code after it
NextService(c) ==
  /\ ipCache' = ipCache
  /\ IF service[c] < 3
     THEN /\ service' = [service EXCEPT ![c] = @ + 1]
          /\ requests' = [requests EXCEPT ![c] =
                            Append(@, GetUrl(service[c] + 1, UrlArg(ip[c])))]
          /\ pc' = [pc EXCEPT ![c] = "fetch"]
          /\ UNCHANGED result
     ELSE /\ pc' = [pc EXCEPT ![c] = "RETURN_EMPTY"]
          /\ result' = [result EXCEPT ![c] = EmptyObject]
          /\ UNCHANGED <<service, requests>>

\* a handler that gives up the whole chain on HTTP 429
FetchSettlesStopOn429(c, outcome) ==
  /\ pc[c] = "fetch"
  /\ CASE outcome = "ok" ->
            /\ pc' = [pc EXCEPT ![c] = "json"]
            /\ UNCHANGED <<ipCache, service, requests, result>>
       [] outcome = "429" ->
            /\ pc' = [pc EXCEPT ![c] = "RETURN_EMPTY"]
            /\ result' = [result EXCEPT ![c] = EmptyObject]
            /\ UNCHANGED <<ipCache, service, requests>>
       [] outcome \in {"500", "error"} -> NextService(c)
  /\ clearsInRow' = 0
  /\ UNCHANGED collectVars
  /\ UNCHANGED <<now, ip, cached, json, clearedInFlight>>

\* a handler that asks the same service again on HTTP 429
FetchSettlesRetryOn429(c, outcome) ==
  /\ pc[c] = "fetch"
  /\ CASE outcome = "ok" ->
            /\ pc' = [pc EXCEPT ![c] = "json"]
            /\ UNCHANGED <<ipCache, service, requests, result>>
       [] outcome = "429" ->
            UNCHANGED <<pc, ipCache, service, requests, result>>
       [] outcome \in {"500", "error"} -> NextService(c)
  /\ clearsInRow' = 0
  /\ UNCHANGED collectVars
  /\ UNCHANGED <<now, ip, cached, json, clearedInFlight>>

\* the awaited fetch settles: a 2xx response goes on to res.json(); HTTP
\* 429 logs "rate limited" and continues; any other status throws, and the
\* catch, which also takes a rejected fetch, logs "failed" and continues
FetchSettles(c, outcome) ==
  /\ pc[c] = "fetch"
  /\ CASE outcome = "ok" ->
            /\ pc' = [pc EXCEPT ![c] = "json"]
            /\ UNCHANGED <<ipCache, service, requests, result>>
       [] outcome = "429" -> NextService(c)
       [] outcome \in {"500", "error"} -> NextService(c)
  /\ clearsInRow' = 0
  /\ UNCHANGED collectVars
  /\ UNCHANGED <<now, ip, cached, json, clearedInFlight>>

\* a handler that caches the document as it came, not the transformed one
JsonSettlesCachesRaw(c, body) ==
  /\ pc[c] = "json"
  /\ IF body = NotJson
     THEN /\ NextService(c)
          /\ UNCHANGED json
     ELSE /\ IF TransformThrows(service[c], body)
             THEN /\ NextService(c)
                  /\ UNCHANGED json
             ELSE /\ json' = [json EXCEPT ![c] = body]
                  /\ ipCache' = MapSet(ipCache, CacheKey(ip[c]),
                                       [data |-> body, timestamp |-> now])
                  /\ result' = [result EXCEPT ![c] = LocationData(service[c], body)]
                  /\ pc' = [pc EXCEPT ![c] = "RETURN"]
                  /\ UNCHANGED <<service, requests>>
  /\ clearsInRow' = 0
  /\ UNCHANGED collectVars
  /\ UNCHANGED <<now, ip, cached, clearedInFlight>>

\* the awaited res.json() settles; on a document the transform accepts the
\* result is cached and returned
JsonSettles(c, body) ==
  /\ pc[c] = "json"
  /\ IF body = NotJson
     THEN /\ NextService(c)
          /\ UNCHANGED json
     ELSE /\ IF TransformThrows(service[c], body)
             THEN /\ NextService(c)
                  /\ UNCHANGED json
             ELSE /\ json' = [json EXCEPT ![c] = body]
                  /\ ipCache' = MapSet(ipCache, CacheKey(ip[c]),
                                       [data |-> LocationData(service[c], body),
                                        timestamp |-> now])
                  /\ result' = [result EXCEPT ![c] = LocationData(service[c], body)]
                  /\ pc' = [pc EXCEPT ![c] = "RETURN"]
                  /\ UNCHANGED <<service, requests>>
  /\ clearsInRow' = 0
  /\ UNCHANGED collectVars
  /\ UNCHANGED <<now, ip, cached, clearedInFlight>>

\* ------------------------------------------------- POST /clear-cache ----
\* a clear that deletes one key only
MapClearOne(cache) ==
  IF DOMAIN cache = {} THEN cache
  ELSE LET gone == CHOOSE k \in DOMAIN cache : TRUE
       IN [k \in DOMAIN cache \ {gone} |-> cache[k]]

\* ipCache.clear()
MapClear(cache) == <<>>

\* a clear that also abandons the calls that are awaiting a service
ClearCacheAbandonsCalls ==
  /\ clearsInRow < MaxClearsInRow
  /\ ipCache' = MapClear(ipCache)
  /\ clearsInRow' = clearsInRow + 1
  /\ UNCHANGED collectVars
  /\ clearedInFlight' = (\E c \in Calls : InFlight(c))
  /\ pc' = [c \in Calls |-> IF InFlight(c) THEN "RETURN_EMPTY" ELSE pc[c]]
  /\ result' = [c \in Calls |-> IF InFlight(c) THEN EmptyObject ELSE result[c]]
  /\ UNCHANGED <<now, ip, cached, service, requests, json>>

ClearCache ==
  /\ clearsInRow < MaxClearsInRow
  /\ ipCache' = MapClear(ipCache)
  /\ clearsInRow' = clearsInRow + 1
  /\ UNCHANGED collectVars
  /\ clearedInFlight' = (\E c \in Calls : InFlight(c))
  /\ UNCHANGED <<now, pc, ip, cached, service, requests, json, result>>

\* ------------------------------------------------------ POST /collect ----
\* The handler calls getClientIp, awaits lookupIP with the detected address
\* (the call c above, ip[c] being the detected address), then builds the
\* document and awaits doc.save().

\* req.body || {}
ReqBodies == {<<>>, [userAgent |-> "UA", ip |-> "6.6.6.6", location |-> "L"]}

\* how the promise returned by doc.save() settles
SaveOutcomes == {"resolved", "rejected"}

\* reading location.ip of null throws a TypeError
LocationIpThrows(location) == location.kind = "null"

\* a document that takes the detected address before the one of the record
DeviceDataPrefersDetected(body, location, detectedIp) ==
  [body     |-> [k \in DOMAIN body \ {"ip", "location"} |-> body[k]],
   ip       |-> Or(detectedIp, Get(location.fields, "ip")),
   location |-> IF Cardinality(ObjectKeys(location)) > 0 THEN location ELSE JsonNull]

\* { ...body, ip: finalIp, location: Object.keys(location).length > 0 ? location : null }
\* with finalIp = location.ip || detectedIp
DeviceData(body, location, detectedIp) ==
  [body     |-> [k \in DOMAIN body \ {"ip", "location"} |-> body[k]],
   ip       |-> Or(Get(location.fields, "ip"), detectedIp),
   location |-> IF Cardinality(ObjectKeys(location)) > 0 THEN location ELSE JsonNull]

\* lookupIP has returned to the handler: the document is built and save() is
\* called; a TypeError goes to the catch, which answers 500
CollectBuilds(c, body) ==
  /\ Returned(c)
  /\ collect[c] = "none"
  /\ IF LocationIpThrows(result[c])
     THEN /\ collect' = [collect EXCEPT ![c] = "error"]
          /\ UNCHANGED deviceData
     ELSE /\ collect' = [collect EXCEPT ![c] = "save"]
          /\ deviceData' = [deviceData EXCEPT ![c] = DeviceData(body, result[c], ip[c])]
  /\ UNCHANGED <<ipCache, now, pc, ip, cached, service, requests, json, result,
                 clearsInRow, clearedInFlight, devices>>

\* the awaited doc.save() settles: the document is stored and returned to
\* the client, or the catch answers 500
SaveSettles(c, outcome) ==
  /\ collect[c] = "save"
  /\ IF outcome = "resolved"
     THEN /\ devices' = Append(devices, deviceData[c])
          /\ collect' = [collect EXCEPT ![c] = "saved"]
     ELSE /\ collect' = [collect EXCEPT ![c] = "error"]
          /\ UNCHANGED devices
  /\ UNCHANGED <<ipCache, now, pc, ip, cached, service, requests, json, result,
                 clearsInRow, clearedInFlight, deviceData>>

\* ---------------------------------------------------------- the clock ----
\* time passes: half a cache lifetime at a step
Tick ==
  /\ now < MaxTicks * (CACHE_DURATION \div 2)
  /\ now' = now + CACHE_DURATION \div 2
  /\ UNCHANGED collectVars
  /\ UNCHANGED <<ipCache, pc, ip, cached, service, requests, json, result,
                 clearsInRow, clearedInFlight>>

Next ==
  \/ \E c \in Calls, rawIp \in IPs : Lookup(c, rawIp)
  \/ \E c \in Calls, outcome \in FetchOutcomes : FetchSettles(c, outcome)
  \/ \E c \in Calls : \E body \in Bodies(service[c]) \cup {NotJson} : JsonSettles(c, body)
  \/ ClearCache
  \/ Tick

Spec == Init /\ [][Next]_vars

\* calls for one address that run together
NextOneKey ==
  \/ \E c \in Calls : Lookup(c, "203.0.113.5")
  \/ \E c \in Calls, outcome \in FetchOutcomes : FetchSettles(c, outcome)
  \/ \E c \in Calls : \E body \in Bodies(service[c]) \cup {NotJson} : JsonSettles(c, body)
  \/ ClearCache
  \/ Tick

\* every awaited promise settles: fetch is given the service's timeout of
\* 8000 ms, and the body of a response that arrived is read to its end
SpecFair ==
  /\ Init /\ [][NextOneKey]_vars
  /\ \A c \in Calls :
       /\ WF_vars(\E outcome \in FetchOutcomes : FetchSettles(c, outcome))
       /\ WF_vars(\E body \in Bodies(service[c]) \cup {NotJson} : JsonSettles(c, body))

\* calls that run together for inputs that are all looked up without
\* address, while no /clear-cache request arrives
NextKeys ==
  \/ \E c \in Calls, rawIp \in KeyIPs : Lookup(c, rawIp)
  \/ \E c \in Calls, outcome \in FetchOutcomes : FetchSettles(c, outcome)
  \/ \E c \in Calls : \E body \in Bodies(service[c]) \cup {NotJson} : JsonSettles(c, body)
  \/ Tick

SpecKeys == Init /\ [][NextKeys]_vars

\* one call at a time, over every input string and every document
NextOne ==
  \/ \E rawIp \in AllIPs : Lookup(1, rawIp)
  \/ \E outcome \in FetchOutcomes : FetchSettles(1, outcome)
  \/ \E body \in AllBodies(service[1]) \cup {NotJson} : JsonSettles(1, body)
  \/ ClearCache
  \/ Tick

SpecOne == Init /\ [][NextOne]_vars

\* one /collect request at a time, over every input string and document
NextCollect ==
  \/ \E rawIp \in AllIPs : Lookup(1, rawIp)
  \/ \E outcome \in FetchOutcomes : FetchSettles(1, outcome)
  \/ \E body \in AllBodies(service[1]) \cup {NotJson} : JsonSettles(1, body)
  \/ \E body \in ReqBodies : CollectBuilds(1, body)
  \/ \E outcome \in SaveOutcomes : SaveSettles(1, outcome)
  \/ ClearCache
  \/ Tick

SpecCollect == Init /\ [][NextCollect]_vars

\* ============================================================ claims ====
\* C1: a lookup that starts while the cache holds an entry for its key that
\* is younger than 24 hours returns that entry's data and fetches nothing,
\* so it and the call that stored the entry fetched one chain in total.
C1_CacheHitAvoidsFetch ==
  [][\A c \in Calls :
       /\ ( /\ pc[c] = "idle" /\ pc'[c] # "idle"
            /\ CacheKey(ip'[c]) \in DOMAIN ipCache
            /\ now - ipCache[CacheKey(ip'[c])].timestamp < 24 * 60 * 60 * 1000 )
          => /\ pc'[c] = "CACHE_HIT"
             /\ result'[c] = ipCache[CacheKey(ip'[c])].data
             /\ requests'[c] = <<>>
       /\ pc[c] = "CACHE_HIT" => (pc'[c] = "CACHE_HIT" /\ requests'[c] = <<>>)
    ]_vars

C1_Witness ==
  \E c, d \in Calls :
    /\ c # d /\ ip[c] = ip[d]
    /\ pc[d] = "RETURN" /\ Len(requests[d]) >= 1
    /\ pc[c] = "CACHE_HIT" /\ requests[c] = <<>> /\ result[c] = result[d]
    /\ cached[c] = "fresh"
    /\ CacheKey(ip[c]) \in DOMAIN ipCache
    /\ now > ipCache[CacheKey(ip[c])].timestamp

\* C2: a lookup that starts while the entry for its key is 24 hours old or
\* older is not answered from the cache: it fetches from the first service,
\* and a successful fetch overwrites the entry with the fetched data and the
\* time of the write.
C2_ExpiredEntryIsRefetched ==
  [][\A c \in Calls :
       /\ ( /\ pc[c] = "idle" /\ pc'[c] # "idle"
            /\ CacheKey(ip'[c]) \in DOMAIN ipCache
            /\ now - ipCache[CacheKey(ip'[c])].timestamp >= 24 * 60 * 60 * 1000 )
          => /\ pc'[c] = "fetch"
             /\ Len(requests'[c]) = 1
             /\ result'[c] = NoResult
       /\ (pc[c] = "json" /\ pc'[c] = "RETURN")
          => ipCache'[CacheKey(ip[c])] = [data |-> result'[c], timestamp |-> now]
    ]_vars

C2_Witness ==
  \E c, d \in Calls :
    /\ c # d /\ ip[c] = ip[d]
    /\ pc[d] = "RETURN" /\ pc[c] = "RETURN"
    /\ cached[c] = "expired"
    /\ now >= 24 * 60 * 60 * 1000
    /\ CacheKey(ip[c]) \in DOMAIN ipCache
    /\ ipCache[CacheKey(ip[c])] = [data |-> result[c], timestamp |-> now]

\* the URL of service i without an address, and with the address a
AutoUrl(i) ==
  CASE i = 1 -> "https://ipapi.co/json/"
    [] i = 2 -> "http://ip-api.com/json/"
    [] i = 3 -> "https://ipinfo.io/json"

ExplicitUrl(i, a) ==
  CASE i = 1 -> "https://ipapi.co/" \o a \o "/json/"
    [] i = 2 -> "http://ip-api.com/json/" \o a
    [] i = 3 -> "https://ipinfo.io/" \o a \o "/json"

\* the service a URL belongs to
ServiceOf(url) ==
  IF StartsWith(url, "https://ipapi.co/") THEN 1
  ELSE IF StartsWith(url, "http://ip-api.com/") THEN 2
  ELSE IF StartsWith(url, "https://ipinfo.io/") THEN 3 ELSE 0

\* C3: the services are fetched in the order 1, 2, 3, the next one only when
\* the one before it did not succeed; a rate-limited service (HTTP 429) and
\* a failed one lead to the same next step; the call returns the output of
\* the first service that succeeds and fetches no service after it.
C3_FallbackOrder ==
  [][\A c \in Calls :
       /\ Len(requests'[c]) = service'[c] /\ service'[c] <= 3
       /\ \A i \in 1..Len(requests'[c]) : ServiceOf(requests'[c][i]) = i
       /\ pc'[c] = "RETURN_EMPTY" => Len(requests'[c]) = 3
       /\ pc'[c] = "RETURN"
          => /\ json'[c] \in AllBodies(Len(requests'[c]))
             /\ result'[c] =
                  (CASE Len(requests'[c]) = 1 -> json'[c]
                     [] Len(requests'[c]) = 2 -> Obj(TransformIpApiCom(json'[c].fields))
                     [] Len(requests'[c]) = 3 -> Obj(TransformIpInfo(json'[c].fields)))
       /\ FetchSettles(c, "429") <=> FetchSettles(c, "500")
       /\ FetchSettles(c, "429") <=> FetchSettles(c, "error")
       /\ (pc[c] = "fetch" /\ pc'[c] \notin {"fetch", "json"})
          => (service[c] = 3 /\ pc'[c] = "RETURN_EMPTY")
       /\ (pc[c] = "fetch" /\ pc'[c] = "fetch" /\ requests'[c] # requests[c])
          => (service'[c] = service[c] + 1 /\ Len(requests'[c]) = Len(requests[c]) + 1)
       /\ pc[c] = "RETURN" => (pc'[c] = "RETURN" /\ requests'[c] = requests[c])
    ]_vars

C3_Witness ==
  \E c \in Calls :
    /\ pc[c] = "RETURN"
    /\ Len(requests[c]) = 2
    /\ ServiceOf(requests[c][1]) = 1 /\ ServiceOf(requests[c][2]) = 2
    /\ json[c] = Obj(IpApiComBody)
    /\ result[c] = Obj(TransformIpApiCom(IpApiComBody))

\* C4: when all three services fail the call returns {} and leaves the cache
\* as it was; a later call for the same key that finds no entry fetches again.
C4_TotalFailureNotCached ==
  [][\A c \in Calls :
       /\ pc'[c] = "RETURN_EMPTY"
          => /\ result'[c].kind = "object" /\ DOMAIN result'[c].fields = {}
             /\ Len(requests'[c]) = 3
       /\ (pc[c] # "RETURN_EMPTY" /\ pc'[c] = "RETURN_EMPTY") => ipCache' = ipCache
       /\ \A d \in Calls :
            ( /\ pc[c] = "RETURN_EMPTY" /\ pc[d] = "idle" /\ pc'[d] # "idle"
              /\ ip'[d] = ip[c] /\ CacheKey(ip[c]) \notin DOMAIN ipCache )
            => (pc'[d] = "fetch" /\ Len(requests'[d]) = 1)
    ]_vars

C4_Witness ==
  \E c, d \in Calls :
    /\ c # d /\ ip[c] = "203.0.113.5" /\ ip[d] = "203.0.113.5"
    /\ pc[c] = "RETURN_EMPTY" /\ pc[d] = "RETURN_EMPTY"
    /\ Len(requests[c]) = 3 /\ Len(requests[d]) = 3
    /\ result[d] = Obj(<<>>)
    /\ "203.0.113.5" \notin DOMAIN ipCache

\* C5 as stated: at most one call per cache key is awaiting a service.
C5_OneFetchPerKey ==
  \A c, d \in Calls :
    (c # d /\ InFlight(c) /\ InFlight(d)) => CacheKey(ip[c]) # CacheKey(ip[d])

\* C5 amended: calls are not coalesced.  Every call that starts without a
\* fresh entry for its key fetches from the first service, whatever other
\* calls for that key are in flight, and returns the output of its own chain.
C5_EachCallRunsItsOwnChain ==
  [][\A c \in Calls :
       /\ ( /\ pc[c] = "idle" /\ pc'[c] # "idle"
            /\ ~( /\ CacheKey(ip'[c]) \in DOMAIN ipCache
                  /\ now - ipCache[CacheKey(ip'[c])].timestamp < 24 * 60 * 60 * 1000 ) )
          => (pc'[c] = "fetch" /\ Len(requests'[c]) = 1)
       /\ (pc[c] = "json" /\ pc'[c] = "RETURN")
          => \E body \in AllBodies(service[c]) :
               /\ json'[c] = body
               /\ result'[c] = LocationData(service[c], body)
    ]_vars

C5_Witness ==
  \E c, d \in Calls :
    /\ c # d /\ ip[c] = ip[d]
    /\ cached[c] = "undefined" /\ cached[d] = "undefined"
    /\ pc[c] = "RETURN" /\ Len(requests[c]) = 1
    /\ pc[d] = "json" /\ Len(requests[d]) = 3
    /\ CacheKey(ip[c]) \in DOMAIN ipCache
    /\ ipCache[CacheKey(ip[c])] = [data |-> result[c], timestamp |-> now]

\* C6: whatever the services answer, a call that has returned has returned
\* a record.
C6_ReturnsARecord ==
  \A c \in Calls : Returned(c) => result[c].kind = "object"

\* C7: for "", "127.0.0.1", "::1", "10.1.2.3", "172.16.0.1" and
\* "192.168.1.1" every URL fetched is the service's URL without an address;
\* for "8.8.8.8" every URL fetched carries "8.8.8.8".
C7_AutoDetectClassification ==
  \A c \in Calls : \A i \in 1..Len(requests[c]) :
    /\ ip[c] \in {"", "127.0.0.1", "::1", "10.1.2.3", "172.16.0.1", "192.168.1.1"}
       => requests[c][i] = AutoUrl(i)
    /\ ip[c] = "8.8.8.8" => requests[c][i] = ExplicitUrl(i, "8.8.8.8")

C7_Witness ==
  /\ ip[1] = "172.16.0.1"
  /\ Len(requests[1]) = 3
  /\ requests[1][3] = "https://ipinfo.io/json"

\* the keys of an object whose value is not undefined, with their values
Defined(f) == [k \in {x \in DOMAIN f : f[x] # Undefined} |-> f[k]]

\* C8 as stated: the ip-api.com document of the example becomes a record
\* with the names regionCode, countryName, countryCode, organization and
\* postalCode.
C8_CanonicalNamesAsStated ==
  \A c \in Calls :
    (pc[c] = "RETURN" /\ Len(requests[c]) = 2 /\ json[c] = Obj(IpApiComBody))
    => Defined(result[c].fields) =
         [ip |-> "1.2.3.4", city |-> "X", region |-> "Y", regionCode |-> "YY",
          country |-> "Z", countryName |-> "Z", countryCode |-> "ZZ",
          latitude |-> "#1.5", longitude |-> "#-2.5",
          organization |-> "ACME", postalCode |-> "00000"]

\* C8 amended: the ip-api.com document of the example becomes the record
\* with the names ip, city, region, region_code, country, country_name,
\* country_code, latitude, longitude, org and postal; the transforms of
\* ip-api.com and ipinfo.io use no name outside these and timezone, and the
\* ipapi.co document is returned as it came.
C8_TransformFieldNames ==
  \A c \in Calls :
    /\ (pc[c] = "RETURN" /\ Len(requests[c]) = 2 /\ json[c] = Obj(IpApiComBody))
       => Defined(result[c].fields) =
            [ip |-> "1.2.3.4", city |-> "X", region |-> "Y", region_code |-> "YY",
             country |-> "Z", country_name |-> "Z", country_code |-> "ZZ",
             latitude |-> "#1.5", longitude |-> "#-2.5",
             org |-> "ACME", postal |-> "00000"]
    /\ (pc[c] = "RETURN" /\ Len(requests[c]) \in {2, 3})
       => DOMAIN result[c].fields \subseteq
            {"ip", "city", "region", "region_code", "country", "country_name",
             "country_code", "latitude", "longitude", "timezone", "org", "postal"}
    /\ (pc[c] = "RETURN" /\ Len(requests[c]) = 1) => result[c] = json[c]

C8_Witness ==
  /\ pc[1] = "RETURN"
  /\ Len(requests[1]) = 2
  /\ json[1] = Obj(IpApiComBody)
  /\ result[1].fields["region_code"] = "YY"

\* C9: a /clear-cache request leaves the cache empty whatever it held, and
\* one that directly follows another changes nothing.
C9_IdempotentClear ==
  [][clearsInRow' = clearsInRow + 1
       => /\ DOMAIN ipCache' = {}
          /\ clearsInRow >= 1
             => UNCHANGED <<ipCache, now, pc, ip, cached, service,
                            requests, json, result>>
    ]_vars

C9_Witness ==
  /\ clearsInRow = 2
  /\ DOMAIN ipCache = {}
  /\ \E c, d \in Calls : pc[c] = "RETURN" /\ pc[d] = "RETURN" /\ ip[c] # ip[d]

\* C10: a /clear-cache request that runs while a call awaits a service
\* empties the cache and leaves the call as it was; when the call then
\* succeeds it stores its entry, so the cache is not empty any more.
C10_ClearWhileInFlight ==
  [][/\ clearsInRow' = clearsInRow + 1
        => /\ DOMAIN ipCache' = {}
           /\ UNCHANGED <<pc, ip, cached, service, requests, json, result>>
     /\ \A c \in Calls :
          (pc[c] = "json" /\ pc'[c] = "RETURN")
          => /\ CacheKey(ip[c]) \in DOMAIN ipCache'
             /\ ipCache'[CacheKey(ip[c])].data = result'[c]
    ]_vars

C10_Witness ==
  /\ clearedInFlight
  /\ pc[1] = "RETURN"
  /\ \A d \in Calls : d # 1 => pc[d] = "idle"
  /\ DOMAIN ipCache = {CacheKey(ip[1])}
  /\ ipCache[CacheKey(ip[1])].data = result[1]

\* a document that is not an object, or an object that carries none of the
\* location fields the services answer with
LacksLocationFields(body) ==
  \/ body.kind # "object"
  \/ DOMAIN body.fields \cap
       {"city", "region", "regionName", "country", "country_name",
        "latitude", "longitude", "lat", "lon", "loc"} = {}

\* C11: a service that answers 2xx with a body that is not JSON or that
\* lacks the location fields counts as failed: no call returns the record
\* built from such a body, and no cache entry holds one.
C11_MalformedIsFailure ==
  /\ \A c \in Calls :
       pc[c] = "RETURN" => ~LacksLocationFields(json[c])
  /\ \A k \in DOMAIN ipCache :
       /\ ipCache[k].data.kind = "object"
       /\ \E f \in {"city", "region", "country", "latitude", "longitude"} :
            Get(ipCache[k].data.fields, f) # Undefined

\* C12: an address that is not empty, not "::1", not "127.0.0.1" and outside
\* 10.0.0.0/8, 172.16.0.0/12 and 192.168.0.0/16 is handed to every service:
\* every URL fetched for it carries the address.
C12_ExplicitOutsidePrivateRanges ==
  \A c \in Calls : \A i \in 1..Len(requests[c]) :
    ip[c] \in {"8.8.8.8", "203.0.113.5", "172.32.0.1", "172.15.0.1"}
    => requests[c][i] = ExplicitUrl(i, ip[c])

\* C13: within one call every service is fetched at most once, and a request
\* is issued only in the step in which the call starts or in which its one
\* outstanding request settled without success; while a request or its body
\* is awaited the call issues nothing.
C13_OneSequentialAttempt ==
  [][\A c \in Calls :
       /\ Len(requests'[c]) <= 3
       /\ \A i, j \in 1..Len(requests'[c]) :
            i # j => ServiceOf(requests'[c][i]) # ServiceOf(requests'[c][j])
       /\ requests'[c] # requests[c]
          => /\ Len(requests'[c]) = Len(requests[c]) + 1
             /\ SubSeq(requests'[c], 1, Len(requests[c])) = requests[c]
             /\ pc'[c] = "fetch"
             /\ \/ pc[c] = "idle" /\ requests[c] = <<>>
                \/ pc[c] = "fetch"
                   /\ \E outcome \in {"429", "500", "error"} : FetchSettles(c, outcome)
                \/ pc[c] = "json"
                   /\ \E body \in Bodies(service[c]) \cup {NotJson} : JsonSettles(c, body)
       /\ (pc[c] = "fetch" /\ pc'[c] = "json") => requests'[c] = requests[c]
       /\ pc[c] \in {"CACHE_HIT", "RETURN", "RETURN_EMPTY"} => requests'[c] = requests[c]
    ]_vars

C13_Witness ==
  \E c, d \in Calls :
    /\ c # d
    /\ pc[c] = "RETURN" /\ Len(requests[c]) = 3 /\ json[c] = Obj(IpInfoBody)
    /\ ServiceOf(requests[c][1]) = 1 /\ ServiceOf(requests[c][2]) = 2
    /\ ServiceOf(requests[c][3]) = 3
    /\ pc[d] = "fetch" /\ Len(requests[d]) = 2

\* C14: a call moves from the start to the cache check and then either
\* returns the cached data or goes through the services in order; when every
\* awaited request and body settles, a call that has started returns, with
\* data or with {}, whatever other calls and /clear-cache requests do.
C14_EveryCallTerminates ==
  /\ [][\A c \in Calls :
          /\ pc[c] = "idle" => pc'[c] \in {"idle", "CACHE_HIT", "fetch"}
          /\ pc[c] = "fetch"
             => \/ pc'[c] = "fetch" /\ service'[c] \in {service[c], service[c] + 1}
                \/ pc'[c] = "json" /\ service'[c] = service[c]
                \/ pc'[c] = "RETURN_EMPTY" /\ service[c] = 3
          /\ pc[c] = "json"
             => \/ pc'[c] = "json" /\ service'[c] = service[c]
                \/ pc'[c] = "RETURN" /\ service'[c] = service[c]
                \/ pc'[c] = "fetch" /\ service'[c] = service[c] + 1
                \/ pc'[c] = "RETURN_EMPTY" /\ service[c] = 3
          /\ pc[c] \in {"CACHE_HIT", "RETURN", "RETURN_EMPTY"} => pc'[c] = pc[c]
      ]_vars
  /\ \A c \in Calls :
       (pc[c] \in {"fetch", "json"}) ~> (pc[c] \in {"RETURN", "RETURN_EMPTY"})

C14_Witness ==
  \E c, d \in Calls :
    /\ c # d
    /\ pc[c] = "RETURN_EMPTY" /\ Len(requests[c]) = 3
    /\ pc[d] = "RETURN" /\ Len(requests[d]) = 3
    /\ clearedInFlight

\* the key the claim gives: the input itself, "auto" for the empty input
RawKey(s) == IF s = "" THEN "auto" ELSE s

\* C15: the cache is read and written under the raw input, and under "auto"
\* for the empty input: a call is answered from the cache exactly when a
\* fresh entry is stored under that key, a successful call writes that key
\* and no other, and every key of the cache is the key of a call that
\* succeeded, so "10.1.2.3" and "192.168.1.1" have entries of their own.
C15_CacheKeyIsRawInput ==
  [][\A c \in Calls :
       /\ (pc[c] = "idle" /\ pc'[c] # "idle")
          => /\ pc'[c] = "CACHE_HIT"
                <=> /\ RawKey(ip'[c]) \in DOMAIN ipCache
                    /\ now - ipCache[RawKey(ip'[c])].timestamp < 24 * 60 * 60 * 1000
             /\ pc'[c] = "CACHE_HIT" => result'[c] = ipCache[RawKey(ip'[c])].data
       /\ (pc[c] = "json" /\ pc'[c] = "RETURN")
          => /\ DOMAIN ipCache' = DOMAIN ipCache \cup {RawKey(ip[c])}
             /\ ipCache'[RawKey(ip[c])].data = result'[c]
             /\ \A k \in DOMAIN ipCache : k # RawKey(ip[c]) => ipCache'[k] = ipCache[k]
       /\ \A k \in DOMAIN ipCache' :
            \E d \in Calls : pc'[d] = "RETURN" /\ k = RawKey(ip'[d])
    ]_vars

C15_Witness ==
  \E c, d \in Calls :
    /\ ip[c] = "10.1.2.3" /\ ip[d] = "192.168.1.1"
    /\ pc[c] = "RETURN" /\ pc[d] = "RETURN"
    /\ cached[d] = "undefined"
    /\ requests[c][1] = "https://ipapi.co/json/"
    /\ requests[d][1] = "https://ipapi.co/json/"
    /\ DOMAIN ipCache = {"10.1.2.3", "192.168.1.1"}
    /\ ipCache["10.1.2.3"].timestamp < ipCache["192.168.1.1"].timestamp
    /\ ipCache["10.1.2.3"].data # ipCache["192.168.1.1"].data

\* C16: a field the service's answer lacks is left out of the record, never
\* filled with a placeholder: no returned record holds null or zero, and the
\* record built from an ipinfo.io answer without "loc" has neither latitude
\* nor longitude.
C16_AbsentNotPlaceholder ==
  \A c \in Calls :
    (pc[c] = "RETURN" /\ Len(requests[c]) = 3 /\ "loc" \notin DOMAIN json[c].fields)
    => /\ Get(result[c].fields, "latitude") = Undefined
       /\ Get(result[c].fields, "longitude") = Undefined
       /\ \A k \in DOMAIN result[c].fields : result[c].fields[k] \notin {Null, "#0"}

\* C17: the cache changes only when /clear-cache empties it or when a call
\* got a 2xx answer with a document its transform accepts; that call then
\* stores the transformed document under its own key with the time of the
\* write.  A step that settles a fetch with 429, another status or a
\* rejection, or a body that is not JSON, leaves the cache as it was, and
\* every entry is the result of a call that returned with data for that key.
C17_CacheEntriesFromSuccess ==
  [][/\ ipCache' # ipCache
        => \/ DOMAIN ipCache' = {} /\ clearsInRow' = clearsInRow + 1
           \/ \E c \in Calls :
                /\ pc[c] = "json" /\ pc'[c] = "RETURN"
                /\ \E body \in AllBodies(service[c]) :
                     /\ JsonSettles(c, body)
                     /\ ipCache' =
                          [k \in DOMAIN ipCache \cup {CacheKey(ip[c])} |->
                             IF k = CacheKey(ip[c])
                             THEN [data |-> LocationData(service[c], body),
                                   timestamp |-> now]
                             ELSE ipCache[k]]
     /\ \A c \in Calls :
          /\ \A outcome \in FetchOutcomes :
               FetchSettles(c, outcome) => ipCache' = ipCache
          /\ JsonSettles(c, NotJson) => ipCache' = ipCache
          /\ pc'[c] = "RETURN_EMPTY" /\ pc[c] # "RETURN_EMPTY" => ipCache' = ipCache
     /\ \A k \in DOMAIN ipCache' :
          /\ ipCache'[k].timestamp <= now'
          /\ \E c \in Calls :
               /\ pc'[c] = "RETURN" /\ CacheKey(ip'[c]) = k
               /\ ipCache'[k].data = result'[c]
    ]_vars

C17_Witness ==
  \E c, d \in Calls :
    /\ c # d /\ ip[c] = ip[d]
    /\ pc[c] = "RETURN" /\ Len(requests[c]) = 3
    /\ pc[d] = "RETURN_EMPTY"
    /\ now > 0
    /\ DOMAIN ipCache = {CacheKey(ip[c])}
    /\ ipCache[CacheKey(ip[c])] =
         [data |-> Obj(TransformIpInfo(IpInfoBody)), timestamp |-> now]

\* C18: a call that is answered from the cache leaves the cache as it was;
\* the time of an entry changes only when a successful call writes the
\* entry, so an entry 24 hours old or older is no hit however often it was
\* returned before.
C18_CacheHitLeavesCacheUnchanged ==
  [][/\ \A c \in Calls :
          /\ (pc[c] = "idle" /\ pc'[c] = "CACHE_HIT") => ipCache' = ipCache
          /\ ( /\ pc[c] = "idle" /\ pc'[c] # "idle"
               /\ CacheKey(ip'[c]) \in DOMAIN ipCache
               /\ now >= ipCache[CacheKey(ip'[c])].timestamp + 24 * 60 * 60 * 1000 )
             => pc'[c] # "CACHE_HIT"
     /\ \A k \in DOMAIN ipCache \cap DOMAIN ipCache' :
          ipCache'[k] # ipCache[k]
          => \E c \in Calls :
               /\ pc[c] = "json" /\ pc'[c] = "RETURN" /\ CacheKey(ip[c]) = k
               /\ ipCache'[k].timestamp = now
    ]_vars

C18_Witness ==
  \E c, d \in Calls :
    /\ c # d /\ ip[c] = ip[d]
    /\ pc[c] = "RETURN" /\ pc[d] = "CACHE_HIT" /\ cached[d] = "fresh"
    /\ CacheKey(ip[c]) \in DOMAIN ipCache
    /\ ipCache[CacheKey(ip[c])] = [data |-> result[d], timestamp |-> 0]
    /\ now = 24 * 60 * 60 * 1000
    /\ ~CacheHit(ipCache, CacheKey(ip[c]), now)

\* C19: when lookupIP returned {}, the /collect handler hands save() one
\* document with location null and ip the detected address; when lookupIP
\* returned a record with an ip, the document's ip is that of the record.
\* The collection grows only by the document handed to save(), once, when
\* save() resolves.
C19_CollectSurvivesLookupFailure ==
  [][/\ \A c \in Calls :
          /\ (pc[c] = "RETURN_EMPTY" /\ collect[c] = "none" /\ collect'[c] # "none")
             => /\ collect'[c] = "save"
                /\ deviceData'[c].location.kind = "null"
                /\ deviceData'[c].ip = ip[c]
          /\ ( /\ collect[c] = "none" /\ collect'[c] # "none"
               /\ result[c].kind = "object"
               /\ "ip" \in DOMAIN result[c].fields
               /\ result[c].fields["ip"] \notin {Undefined, Null, ""} )
             => /\ collect'[c] = "save"
                /\ deviceData'[c].ip = result[c].fields["ip"]
                /\ deviceData'[c].location = result[c]
          /\ (collect[c] = "save" /\ collect'[c] = "saved")
             => devices' = Append(devices, deviceData[c])
          /\ collect[c] \in {"saved", "error"} => collect'[c] = collect[c]
     /\ devices' # devices
        => /\ Len(devices') = Len(devices) + 1
           /\ \E c \in Calls : collect[c] = "save" /\ collect'[c] = "saved"
    ]_vars

C19_Witness ==
  /\ ip[1] = "203.0.113.5"
  /\ pc[1] = "RETURN_EMPTY" /\ result[1] = Obj(<<>>)
  /\ collect[1] = "saved"
  /\ Len(devices) = 1
  /\ devices[1].ip = "203.0.113.5"
  /\ devices[1].location = JsonNull
  /\ DOMAIN devices[1].body = {"userAgent"}
====
